---- MODULE Spec2Model ----
(***************************************************************************)
(* Repository<T>: CRUD over one JSON-encoded array kept under a single     *)
(* localStorage key (src/Repository.ts).                                   *)
(*                                                                         *)
(* A JavaScript object is a function from its own keys to values, a value  *)
(* is a string or undefined, an array is a sequence.  The localStorage     *)
(* entry of the collection is either null (key absent) or a string; the    *)
(* string written by JSON.stringify is kept as the array of objects it     *)
(* encodes, in which members whose value is undefined do not appear.       *)
(***************************************************************************)
EXTENDS Integers, Sequences, FiniteSets, TLC

VARIABLES store,    \* localStorage entry under this.collection
          issued,   \* identifiers uuidv4() has returned so far
          pc,       \* the caller: "ready" to call, "returned" from a call, or
                    \* out of a call that "threw"
          op,       \* name of the method that returned
          args,     \* its arguments
          ret,      \* its return value
          before,   \* localStorage entry when it was called
          live,     \* identifiers created and not named by a delete since
          sharing,  \* "one": both callers run in one execution context, a call
                    \* runs to completion; "two": two contexts share the store
          call      \* per caller of SpecRace: how far its create has come

vars == <<store, issued, pc, op, args, ret, before, live, sharing, call>>

\* the two callers of SpecRace
Callers == {"c1", "c2"}

\* a caller that has not called yet
Idle == [at |-> "idle"]

----------------------------------------------------------------------------
(* Bounds *)

MaxDocs == 3        \* longest collection explored
MaxBatch == 2       \* longest argument array of create / updateMany / deleteMany

(* Input alphabet *)

CallerIds == {"a"}                 \* identifiers a caller makes up
UUIDs == {"u1", "u2"}              \* identifiers uuidv4() can return
Fields == {"text", "done"}         \* payload keys
Values == {"hi", "bye"}            \* payload values

----------------------------------------------------------------------------
(* JavaScript values *)

Undefined == "<undefined>"

\* item[key]: a missing member reads as undefined
Get(obj, key) == IF key \in DOMAIN obj THEN obj[key] ELSE Undefined

\* !v for v a string or undefined
Falsy(v) == v \in {Undefined, ""}

\* { ...a, ...b }
Spread(a, b) ==
  [k \in (DOMAIN a) \cup (DOMAIN b) |-> IF k \in DOMAIN b THEN b[k] ELSE a[k]]

\* const { _id, ...rest } = obj
Rest(obj) == [k \in (DOMAIN obj) \ {"_id"} |-> obj[k]]

\* item._id = id
SetId(item, id) ==
  [k \in (DOMAIN item) \cup {"_id"} |-> IF k = "_id" THEN id ELSE item[k]]

\* [...a, ...b]
Concat(a, b) == a \o b

\* the elements of an array, as a set
Elems(arr) == {arr[i] : i \in 1..Len(arr)}

RECURSIVE filter(_, _)
\* Array.prototype.filter; the callback is given as the set of values it accepts
filter(arr, accepted) ==
  IF arr = << >> THEN << >>
  ELSE IF Head(arr) \in accepted
       THEN <<Head(arr)>> \o filter(Tail(arr), accepted)
       ELSE filter(Tail(arr), accepted)

\* Array.prototype.findIndex(item => item._id === _id), 1-based; -1 when none
findIndex(arr, _id) ==
  LET hits == {i \in 1..Len(arr) : Get(arr[i], "_id") = _id}
  IN IF hits = {} THEN -1 ELSE CHOOSE i \in hits : \A j \in hits : i <= j

----------------------------------------------------------------------------
(* localStorage and JSON *)

\* localStorage.getItem of a key that was never set
NullItem == [type |-> "null"]

\* JSON.stringify(items): members whose value is undefined are left out
JSONstringify(items) ==
  [type |-> "string",
   docs |-> [i \in 1..Len(items) |->
              [k \in {j \in DOMAIN items[i] : items[i][j] # Undefined} |-> items[i][k]]]]

\* stored strings that JSON.stringify did not write: the empty string, and a
\* non-empty string that is not JSON
EmptyString == [type |-> "string", chars |-> ""]
Garbage == [type |-> "string", chars |-> "{oops"]

\* JSON.parse(text) of the text of an array
JSONparse(text) == text.docs

\* JSON.parse(text) throws a SyntaxError: text is not JSON
JSONparseThrows(text) == "docs" \notin DOMAIN text

\* localStorage.getItem(this.collection) || '[]': null and '' are falsy
getItemOrEmpty(st) ==
  IF st = NullItem \/ st = EmptyString THEN JSONstringify(<< >>) ELSE st

\* this.read() throws
readThrows(st) == JSONparseThrows(getItemOrEmpty(st))

\* outcome of a method that ended in the exception of JSON.parse: nothing was set
Thrown(st) == [store |-> st, threw |-> "SyntaxError"]

\* the method ended in an exception
Threw(r) == "threw" \in DOMAIN r

\* read(query) called with no argument
NoQuery == [given |-> FALSE]

\* read that keeps the documents matching some entry of query
read_someEntry(st, query) ==
  LET items == JSONparse(getItemOrEmpty(st))
  IN IF ~query.given THEN items
     ELSE filter(items, {item \in Elems(items) :
                          \E key \in DOMAIN query.q : Get(item, key) = query.q[key]})

\* read(query): the whole collection, or the documents matching every entry of query
read(st, query) ==
  LET items == JSONparse(getItemOrEmpty(st))
  IN IF ~query.given THEN items
     ELSE filter(items, {item \in Elems(items) :
                          \A key \in DOMAIN query.q : Get(item, key) = query.q[key]})

----------------------------------------------------------------------------
(* The methods, as functions from the stored entry and the arguments to the
   new stored entry and the return value *)

\* a call of read that stores the array it parsed
readCall_writesBack(st, query) ==
  [store |-> JSONstringify(JSONparse(getItemOrEmpty(st))), ret |-> read(st, query)]

\* a call of read(query): it returns the documents and sets no item
readCall(st, query) ==
  IF readThrows(st) THEN Thrown(st) ELSE [store |-> st, ret |-> read(st, query)]

\* uuidv4(): a version-4 identifier, never one it has returned before
uuidv4(used) == UUIDs \ used

\* Array.isArray(newDocs) ? newDocs : [newDocs]
asArray(newDocs) == IF newDocs.isArray THEN newDocs.docs ELSE <<newDocs.doc>>

\* the objects of the argument: sameAs(newDocs)[i] is the first position of the
\* array that holds the very object found at position i (an array can hold
\* one object more than once)
sameAs(newDocs) == IF newDocs.isArray THEN newDocs.same ELSE <<1>>

\* the positions at which the forEach of create calls uuidv4(): the first
\* visit of each object whose _id is falsy
needsId(newDocs) ==
  LET given == asArray(newDocs)
      same == sameAs(newDocs)
  IN {i \in 1..Len(given) : same[i] = i /\ Falsy(Get(given[i], "_id"))}

\* newItems after the forEach of create: item._id = uuidv4() is an assignment
\* to the object, so every position holding that object shows the identifier
\* given at its first visit; uuids[i] is what uuidv4() returns at position i
assignIds(newDocs, uuids) ==
  LET given == asArray(newDocs)
      same == sameAs(newDocs)
  IN [i \in 1..Len(given) |->
        IF Falsy(Get(given[same[i]], "_id")) THEN SetId(given[same[i]], uuids[same[i]])
        ELSE given[same[i]]]

\* create that leaves a missing _id missing
create_noAssign(st, newDocs, uuids) ==
  LET items == read(st, NoQuery)
      newItems == asArray(newDocs)
  IN [store |-> JSONstringify(Concat(items, newItems)), ret |-> newItems]

\* create that gives every new item a generated _id, supplied or not
create_alwaysGenerates(st, newDocs, uuids) ==
  LET items == read(st, NoQuery)
      given == asArray(newDocs)
      same == sameAs(newDocs)
      newItems == [i \in 1..Len(given) |->
                     SetId(given[i], IF same[i] \in DOMAIN uuids THEN uuids[same[i]]
                                     ELSE CHOOSE u \in UUIDs : TRUE)]
  IN [store |-> JSONstringify(Concat(items, newItems)), ret |-> newItems]

\* create that puts the new items in front of the collection
create_prepend(st, newDocs, uuids) ==
  LET items == read(st, NoQuery)
      newItems == assignIds(newDocs, uuids)
  IN [store |-> JSONstringify(Concat(newItems, items)), ret |-> newItems]

\* the second half of create that stores the new items only
createWrite_dropsItems(items, newDocs, uuids) ==
  LET newItems == assignIds(newDocs, uuids)
  IN [store |-> JSONstringify(newItems), ret |-> newItems]

\* create from its second statement on, with the items that this.read() returned:
\* fill in the identifiers, set the item, return the new items
createWrite(items, newDocs, uuids) ==
  LET newItems == assignIds(newDocs, uuids)
  IN [store |-> JSONstringify(Concat(items, newItems)), ret |-> newItems]

\* create that takes a stored string it cannot parse for an empty collection
create_healsParseError(st, newDocs, uuids) ==
  LET items == IF readThrows(st) THEN << >> ELSE read(st, NoQuery)
      newItems == assignIds(newDocs, uuids)
  IN [store |-> JSONstringify(Concat(items, newItems)), ret |-> newItems]

\* create(newDocs); uuids[i] is what uuidv4() returns for the i-th new item
create(st, newDocs, uuids) ==
  IF readThrows(st) THEN Thrown(st)
  ELSE
  LET items == read(st, NoQuery)
      newItems == assignIds(newDocs, uuids)
  IN [store |-> JSONstringify(Concat(items, newItems)), ret |-> newItems]

\* update that persists the collection also when no document has the _id
update_writesWhenNotFound(st, _id, upd) ==
  IF Falsy(_id) THEN [store |-> st, ret |-> 0]
  ELSE LET items == read(st, NoQuery)
           index == findIndex(items, _id)
       IN IF index = -1 THEN [store |-> JSONstringify(items), ret |-> 0]
          ELSE [store |-> JSONstringify(
                            [items EXCEPT ![index] = Spread(items[index], Rest(upd))]),
                ret |-> 1]

\* update that merges the whole update argument, its _id included
update_mergesId(st, _id, upd) ==
  IF Falsy(_id) THEN [store |-> st, ret |-> 0]
  ELSE LET items == read(st, NoQuery)
           index == findIndex(items, _id)
       IN IF index = -1 THEN [store |-> st, ret |-> 0]
          ELSE [store |-> JSONstringify(
                            [items EXCEPT ![index] = Spread(items[index], upd)]),
                ret |-> 1]

\* update that replaces the document by the update argument instead of merging
update_replaces(st, _id, upd) ==
  IF Falsy(_id) THEN [store |-> st, ret |-> 0]
  ELSE LET items == read(st, NoQuery)
           index == findIndex(items, _id)
       IN IF index = -1 THEN [store |-> st, ret |-> 0]
          ELSE [store |-> JSONstringify(
                            [items EXCEPT ![index] = SetId(Rest(upd), _id)]),
                ret |-> 1]

\* update that adds the document when no stored document has the _id
update_upserts(st, _id, upd) ==
  IF Falsy(_id) THEN [store |-> st, ret |-> 0]
  ELSE LET items == read(st, NoQuery)
           index == findIndex(items, _id)
       IN IF index = -1
          THEN [store |-> JSONstringify(Append(items, SetId(Rest(upd), _id))), ret |-> 1]
          ELSE [store |-> JSONstringify(
                            [items EXCEPT ![index] = Spread(items[index], Rest(upd))]),
                ret |-> 1]

\* update(_id, update)
update(st, _id, upd) ==
  IF Falsy(_id) THEN [store |-> st, ret |-> 0]
  ELSE IF readThrows(st) THEN Thrown(st)
  ELSE LET items == read(st, NoQuery)
           index == findIndex(items, _id)
       IN IF index = -1 THEN [store |-> st, ret |-> 0]
          ELSE LET updateWithoutId == Rest(upd)
                   merged == Spread(items[index], updateWithoutId)
               IN [store |-> JSONstringify([items EXCEPT ![index] = merged]),
                   ret |-> 1]

RECURSIVE updateFrom_stopsAtMiss(_, _, _)
\* the loop of updateMany, given up at the first entry that updates nothing
updateFrom_stopsAtMiss(st, docs, count) ==
  IF docs = << >> THEN [store |-> st, ret |-> count]
  ELSE LET r == update(st, Get(Head(docs), "_id"), Rest(Head(docs)))
       IN IF r.ret = 0 THEN [store |-> st, ret |-> count]
          ELSE updateFrom_stopsAtMiss(r.store, Tail(docs), count + r.ret)

RECURSIVE updateFrom(_, _, _)
\* the forEach loop of updateMany from entry docs[1] on, count so far given
updateFrom(st, docs, count) ==
  IF docs = << >> THEN [store |-> st, ret |-> count]
  ELSE LET r == update(st, Get(Head(docs), "_id"), Rest(Head(docs)))
       IN IF Threw(r) THEN r
          ELSE updateFrom(r.store, Tail(docs), count + r.ret)

\* updateMany that persists the collection it read before it looks at docs
updateMany_writesFirst(st, docs) ==
  IF Len(docs) = 0 THEN [store |-> JSONstringify(read(st, NoQuery)), ret |-> 0]
  ELSE updateFrom(JSONstringify(read(st, NoQuery)), docs, 0)

\* updateMany that returns the number of entries it was given
updateMany_countsEntries(st, docs) ==
  IF Len(docs) = 0 THEN [store |-> st, ret |-> 0]
  ELSE [store |-> updateFrom(st, docs, 0).store, ret |-> Len(docs)]

\* updateMany(docs)
updateMany(st, docs) ==
  IF Len(docs) = 0 THEN [store |-> st, ret |-> 0]
  ELSE updateFrom(st, docs, 0)

\* delete that removes only the first document with the _id
delete_firstOnly(st, _id) ==
  IF Falsy(_id) THEN [store |-> st, ret |-> 0]
  ELSE LET items == read(st, NoQuery)
           index == findIndex(items, _id)
       IN IF index = -1 THEN [store |-> st, ret |-> 0]
          ELSE [store |-> JSONstringify(SubSeq(items, 1, index - 1)
                                          \o SubSeq(items, index + 1, Len(items))),
                ret |-> 1]

\* delete that persists the filtered collection also when nothing was removed
delete_writesAlways(st, _id) ==
  IF Falsy(_id) THEN [store |-> st, ret |-> 0]
  ELSE LET items == read(st, NoQuery)
           filteredItems == filter(items, {item \in Elems(items) : item["_id"] # _id})
       IN [store |-> JSONstringify(filteredItems),
           ret |-> IF Len(items) = Len(filteredItems) THEN 0 ELSE 1]

\* delete(_id)
delete(st, _id) ==
  IF Falsy(_id) THEN [store |-> st, ret |-> 0]
  ELSE IF readThrows(st) THEN Thrown(st)
  ELSE LET items == read(st, NoQuery)
           filteredItems == filter(items, {item \in Elems(items) : item["_id"] # _id})
       IN IF Len(items) = Len(filteredItems) THEN [store |-> st, ret |-> 0]
          ELSE [store |-> JSONstringify(filteredItems), ret |-> 1]

\* deleteMany that looks at the first identifier only
deleteMany_firstIdOnly(st, _ids) ==
  IF Len(_ids) = 0 THEN [store |-> st, ret |-> 0]
  ELSE LET items == read(st, NoQuery)
           filteredItems == filter(items, {item \in Elems(items) :
                                            item["_id"] # _ids[1]})
           count == Len(items) - Len(filteredItems)
       IN IF count = 0 THEN [store |-> st, ret |-> 0]
          ELSE [store |-> JSONstringify(filteredItems), ret |-> count]

\* deleteMany(_ids)
deleteMany(st, _ids) ==
  IF Len(_ids) = 0 THEN [store |-> st, ret |-> 0]
  ELSE IF readThrows(st) THEN Thrown(st)
  ELSE LET items == read(st, NoQuery)
           filteredItems == filter(items, {item \in Elems(items) :
                                            item["_id"] \notin Elems(_ids)})
           count == Len(items) - Len(filteredItems)
       IN IF count = 0 THEN [store |-> st, ret |-> 0]
          ELSE [store |-> JSONstringify(filteredItems), ret |-> count]

----------------------------------------------------------------------------
(* Arguments callers pass *)

\* the payload of the documents handed to create
NewPayload == ("text" :> "hi") @@ ("done" :> "hi")

\* a new document: _id left out, empty, or made up by the caller
NewDocs == {NewPayload} \cup {SetId(NewPayload, id) : id \in CallerIds \cup {""}}

\* identifiers a caller can name: made up, obtained from an earlier create, or empty
IdArgs == CallerIds \cup issued \cup {""}

\* the update argument of update(_id, update)
Partials ==
  {<< >>,
   ("text" :> "bye"),
   ("_id" :> "a") @@ ("text" :> "bye") @@ ("done" :> Undefined)}

\* the entries of updateMany(docs)
UpdateManyDocs ==
  {SetId(("text" :> "bye"), id) : id \in CallerIds \cup {""}}
    \cup {SetId(("text" :> "hi"), id) : id \in CallerIds}
    \cup {SetId(("text" :> "bye") @@ ("done" :> Undefined), id) : id \in issued}

\* the query argument of read: none, empty, one field, two fields
Queries ==
  {NoQuery,
   [given |-> TRUE, q |-> << >>],
   [given |-> TRUE, q |-> ("text" :> "bye")],
   [given |-> TRUE, q |-> ("text" :> "bye") @@ ("done" :> "hi")]}

\* the ways an array can hold objects more than once: s[i] is the first
\* position of the object at position i
Aliasings(a) ==
  {s \in [1..Len(a) -> 1..Len(a)] :
     \A i \in 1..Len(a) : s[i] <= i /\ s[s[i]] = s[i] /\ a[s[i]] = a[i]}

\* the arrays create can be given: documents of S, some perhaps the same object
ArrayArgs(S) ==
  UNION {{[isArray |-> TRUE, docs |-> a, same |-> s] : s \in Aliasings(a)} :
           a \in UNION {[1..n -> S] : n \in 0..MaxBatch}}

\* arrays of at most MaxBatch elements of S
Arrays(S) == UNION {[1..n -> S] : n \in 0..MaxBatch}

----------------------------------------------------------------------------
(* The calls *)

Init ==
  /\ store \in {NullItem, JSONstringify(<< >>)}
  /\ issued = {}
  /\ pc = "ready"
  /\ op = "none"
  /\ args = << >>
  /\ ret = 0
  /\ before = NullItem
  /\ live = {}
  /\ sharing = "one"
  /\ call = [c \in Callers |-> Idle]

Read ==
  \E query \in Queries :
    LET r == readCall(store, query)
    IN /\ pc = "ready"
       /\ store' = r.store
       /\ ret' = (IF Threw(r) THEN r.threw ELSE r.ret)
       /\ pc' = (IF Threw(r) THEN "threw" ELSE "returned")
       /\ op' = "read"
       /\ args' = [query |-> query]
       /\ before' = store
       /\ UNCHANGED <<issued, live, sharing, call>>

\* one call of create; every object with a falsy _id draws its own uuidv4()
Create ==
  \E newDocs \in {[isArray |-> FALSE, doc |-> d] : d \in NewDocs}
                 \cup ArrayArgs(NewDocs) :
    LET given == asArray(newDocs)
        need == needsId(newDocs)
    IN /\ pc = "ready"
       /\ IF readThrows(store) THEN TRUE
          ELSE Len(read(store, NoQuery)) + Len(given) <= MaxDocs
       /\ \E uuids \in [need -> uuidv4(issued)] :
            /\ \A i, j \in need : uuids[i] = uuids[j] => i = j
            /\ LET r == create(store, newDocs, uuids)
               IN /\ store' = r.store
                  /\ ret' = (IF Threw(r) THEN r.threw ELSE r.ret)
                  /\ pc' = (IF Threw(r) THEN "threw" ELSE "returned")
                  /\ issued' = (IF Threw(r) THEN issued
                                 ELSE issued \cup {uuids[i] : i \in need})
                  /\ live' = (IF Threw(r) THEN live
                               ELSE live \cup {Get(r.ret[i], "_id") : i \in 1..Len(r.ret)})
            /\ op' = "create"
            /\ args' = [newDocs |-> newDocs]
            /\ before' = store
            /\ UNCHANGED <<sharing, call>>

Update ==
  \E _id \in IdArgs, upd \in Partials :
    LET r == update(store, _id, upd)
    IN /\ pc = "ready"
       /\ store' = r.store
       /\ ret' = (IF Threw(r) THEN r.threw ELSE r.ret)
       /\ pc' = (IF Threw(r) THEN "threw" ELSE "returned")
       /\ op' = "update"
       /\ args' = [_id |-> _id, update |-> upd]
       /\ before' = store
       /\ UNCHANGED <<issued, live, sharing, call>>

UpdateMany ==
  \E docs \in Arrays(UpdateManyDocs) :
    LET r == updateMany(store, docs)
    IN /\ pc = "ready"
       /\ store' = r.store
       /\ ret' = (IF Threw(r) THEN r.threw ELSE r.ret)
       /\ pc' = (IF Threw(r) THEN "threw" ELSE "returned")
       /\ op' = "updateMany"
       /\ args' = [docs |-> docs]
       /\ before' = store
       /\ UNCHANGED <<issued, live, sharing, call>>

Delete ==
  \E _id \in IdArgs :
    LET r == delete(store, _id)
    IN /\ pc = "ready"
       /\ store' = r.store
       /\ ret' = (IF Threw(r) THEN r.threw ELSE r.ret)
       /\ pc' = (IF Threw(r) THEN "threw" ELSE "returned")
       /\ op' = "delete"
       /\ args' = [_id |-> _id]
       /\ before' = store
       /\ live' = (IF Threw(r) THEN live ELSE live \ {_id})
       /\ UNCHANGED <<issued, sharing, call>>

DeleteMany ==
  \E _ids \in Arrays(IdArgs \ {""}) :
    LET r == deleteMany(store, _ids)
    IN /\ pc = "ready"
       /\ store' = r.store
       /\ ret' = (IF Threw(r) THEN r.threw ELSE r.ret)
       /\ pc' = (IF Threw(r) THEN "threw" ELSE "returned")
       /\ op' = "deleteMany"
       /\ args' = [_ids |-> _ids]
       /\ before' = store
       /\ live' = (IF Threw(r) THEN live ELSE live \ Elems(_ids))
       /\ UNCHANGED <<issued, sharing, call>>

\* the synchronous call is over; the caller goes on and keeps nothing of it
Return ==
  /\ pc \in {"returned", "threw"}
  /\ pc' = "ready"
  /\ op' = "none"
  /\ args' = << >>
  /\ ret' = 0
  /\ before' = NullItem
  /\ UNCHANGED <<store, issued, live, sharing, call>>

Next == Read \/ Create \/ Update \/ UpdateMany \/ Delete \/ DeleteMany \/ Return

Spec == Init /\ [][Next]_vars

\* the same calls on a key under which something else stored a string that is
\* not JSON
InitCorrupt ==
  /\ store \in {EmptyString, Garbage}
  /\ issued = {}
  /\ pc = "ready"
  /\ op = "none"
  /\ args = << >>
  /\ ret = 0
  /\ before = NullItem
  /\ live = {}
  /\ sharing = "one"
  /\ call = [c \in Callers |-> Idle]

SpecCorrupt == InitCorrupt /\ [][Next]_vars

----------------------------------------------------------------------------
(* Two callers of create on one store.  In one execution context a call runs
   to completion before the next begins; two contexts that share the store
   take their steps in any order. *)

\* what the callers pass to create: one document, or an array in which at most
\* one object needs a generated _id
RaceNewDocs ==
  {[isArray |-> FALSE, doc |-> d] : d \in NewDocs}
    \cup {n \in ArrayArgs(NewDocs) : Cardinality(needsId(n)) <= 1}

InitRace ==
  /\ store \in {NullItem, JSONstringify(<< >>)}
  /\ issued = {}
  /\ pc = "ready"
  /\ op = "none"
  /\ args = << >>
  /\ ret = 0
  /\ before = NullItem
  /\ live = {}
  /\ sharing \in {"one", "two"}
  /\ call = [c \in Callers |-> Idle]

\* caller c enters create: const items = this.read()
CreateRead(c) ==
  /\ call[c].at = "idle"
  /\ sharing = "one" => \A d \in Callers : call[d].at # "read"
  /\ \E newDocs \in RaceNewDocs :
       call' = [call EXCEPT ![c] = [at |-> "read", newDocs |-> newDocs,
                                    items |-> read(store, NoQuery)]]
  /\ UNCHANGED <<store, issued, pc, op, args, ret, before, live, sharing>>

\* caller c goes on: identifiers, localStorage.setItem, return newItems
CreateWrite(c) ==
  /\ call[c].at = "read"
  /\ LET need == needsId(call[c].newDocs)
     IN \E uuids \in [need -> uuidv4(issued)] :
          /\ \A i, j \in need : uuids[i] = uuids[j] => i = j
          /\ LET r == createWrite(call[c].items, call[c].newDocs, uuids)
             IN /\ store' = r.store
                /\ call' = [call EXCEPT ![c] = [at |-> "done", newDocs |-> call[c].newDocs,
                                                 items |-> call[c].items, ret |-> r.ret]]
                /\ live' = live \cup {Get(r.ret[i], "_id") : i \in 1..Len(r.ret)}
          /\ issued' = issued \cup {uuids[i] : i \in need}
  /\ UNCHANGED <<pc, op, args, ret, before, sharing>>

NextRace == \E c \in Callers : CreateRead(c) \/ CreateWrite(c)

SpecRace == InitRace /\ [][NextRace]_vars

----------------------------------------------------------------------------
(* Vocabulary of the properties *)

\* the method `name` has just returned
Called(name) == pc = "returned" /\ op = name

\* the collection now, and when the last call was made
Now == read(store, NoQuery)
Old == read(before, NoQuery)

\* the _id values of an array of documents, in order and as a set
IdSeq(items) == [i \in 1..Len(items) |-> Get(items[i], "_id")]
IdSet(items) == {Get(items[i], "_id") : i \in 1..Len(items)}

\* v is a non-empty string
NonEmptyString(v) == v # Undefined /\ v # ""

----------------------------------------------------------------------------
(* C1 *)

\* C1: every stored document has a non-empty _id and no two stored documents
\* have the same _id, whatever create, update, updateMany, delete and
\* deleteMany calls were made from an absent or empty collection.
C1_IdsNonEmptyAndUnique ==
  /\ \A i \in 1..Len(Now) : NonEmptyString(Get(Now[i], "_id"))
  /\ \A i, j \in 1..Len(Now) : Now[i]["_id"] = Now[j]["_id"] => i = j

----------------------------------------------------------------------------
(* C2 *)

\* a batch that holds one object without _id twice has been created: uuidv4()
\* ran once and both stored documents carry the identifier it returned
C1_WitnessSameObject ==
  /\ Called("create")
  /\ args.newDocs.isArray
  /\ Len(args.newDocs.docs) = 2
  /\ args.newDocs.same = <<1, 1>>
  /\ "_id" \notin DOMAIN args.newDocs.docs[1]
  /\ Old = << >>
  /\ Cardinality(issued) = 1
  /\ Get(ret[1], "_id") \in issued
  /\ Get(ret[2], "_id") = Get(ret[1], "_id")
  /\ Now = ret

\* C2: create returns every input document that had no _id with an _id that is
\* a non-empty string, differs from every _id in the collection before the
\* call, and read() afterwards contains the returned document, whose other
\* fields are those of the input.
C2_CreateAssignsFreshId ==
  Called("create") =>
    LET given == asArray(args.newDocs)
    IN \A i \in 1..Len(given) :
         "_id" \notin DOMAIN given[i] =>
           /\ NonEmptyString(Get(ret[i], "_id"))
           /\ Get(ret[i], "_id") \notin IdSet(Old)
           /\ \E k \in 1..Len(Now) : Now[k] = ret[i]
           /\ Rest(ret[i]) = given[i]

\* a document without _id was created in a collection that already had documents
C2_Witness ==
  /\ Called("create")
  /\ Len(Old) > 0
  /\ \E i \in 1..Len(asArray(args.newDocs)) : "_id" \notin DOMAIN asArray(args.newDocs)[i]

----------------------------------------------------------------------------
(* C3 *)

\* C3 as stated: for every document passed to create with an explicit _id, of
\* any string value, the returned and the stored document carry exactly that _id.
C3_AnyExplicitIdKept ==
  Called("create") =>
    LET given == asArray(args.newDocs)
    IN \A i \in 1..Len(given) :
         "_id" \in DOMAIN given[i] =>
           /\ Get(ret[i], "_id") = given[i]["_id"]
           /\ Get(Now[Len(Old) + i], "_id") = given[i]["_id"]

\* C3 amended: for every document passed to create with an explicit non-empty
\* string _id, the returned and the stored document carry exactly that _id.
C3_NonEmptyExplicitIdKept ==
  Called("create") =>
    LET given == asArray(args.newDocs)
    IN \A i \in 1..Len(given) :
         ("_id" \in DOMAIN given[i] /\ given[i]["_id"] # "") =>
           /\ Get(ret[i], "_id") = given[i]["_id"]
           /\ Get(Now[Len(Old) + i], "_id") = given[i]["_id"]

\* create was given a document with a non-empty _id next to one without
C3_Witness ==
  /\ Called("create")
  /\ \E i, j \in 1..Len(asArray(args.newDocs)) :
       /\ Get(asArray(args.newDocs)[i], "_id") = "a"
       /\ Falsy(Get(asArray(args.newDocs)[j], "_id"))

----------------------------------------------------------------------------
(* C4 *)

\* C4: after create the stored sequence is the collection before the call,
\* unchanged and in the same order, followed by the input documents with their
\* identifiers populated, in input order; read() returns exactly that sequence.
C4_CreateAppends ==
  Called("create") =>
    LET given == asArray(args.newDocs)
    IN /\ Len(ret) = Len(given)
       /\ \A i \in 1..Len(given) :
            /\ Rest(ret[i]) = Rest(given[i])
            /\ NonEmptyString(Get(ret[i], "_id"))
       /\ store.type = "string"
       /\ JSONparse(store) = Old \o ret
       /\ Now = Old \o ret

\* a batch of two documents was appended to a collection that had documents
C4_Witness ==
  /\ Called("create")
  /\ args.newDocs.isArray
  /\ Len(ret) = 2
  /\ ret[1] # ret[2]
  /\ Len(Old) > 0

----------------------------------------------------------------------------
(* C5 *)

\* C5: update(id, partial) with id empty, or equal to the _id of no stored
\* document, returns 0 and leaves the stored entry exactly as it was.
C5_UpdateMissIsNoOp ==
  (Called("update") /\ (args._id = "" \/ args._id \notin IdSet(Old))) =>
    /\ ret = 0
    /\ store = before

\* update with a non-empty id and a non-empty partial missed on a key that was
\* never written
C5_Witness ==
  /\ Called("update")
  /\ args._id # ""
  /\ args._id \notin IdSet(Old)
  /\ args.update # << >>
  /\ before = NullItem

----------------------------------------------------------------------------
(* C6 *)

\* C6: update and updateMany never change a document's _id: the sequence of
\* _id values is the same before and after; and update(id, partial) whose
\* partial carries another _id leaves the target's _id equal to id while the
\* other fields of partial are applied.
C6_UpdateKeepsIds ==
  /\ (Called("update") \/ Called("updateMany")) => IdSeq(Now) = IdSeq(Old)
  /\ (Called("update") /\ ret = 1 /\ "_id" \in DOMAIN args.update) =>
       LET index == findIndex(Old, args._id)
       IN /\ Get(Now[index], "_id") = args._id
          /\ \A k \in (DOMAIN args.update) \ {"_id"} :
               Get(Now[index], k) = args.update[k]

\* an update whose partial names another _id succeeded
C6_Witness ==
  /\ Called("update")
  /\ ret = 1
  /\ "_id" \in DOMAIN args.update
  /\ args.update["_id"] # args._id
  /\ Now # Old

\* an updateMany changed a document
C6_WitnessMany ==
  /\ Called("updateMany")
  /\ ret > 0
  /\ Now # Old

----------------------------------------------------------------------------
(* C7 *)

\* C7: an update that returns 1 changes one document only, in place: there
\* every field named in partial other than _id has the partial's value and
\* every other field its old value; all other documents, the order and the
\* length of the collection are unchanged.
C7_UpdateFrame ==
  (Called("update") /\ ret = 1) =>
    LET index == findIndex(Old, args._id)
        named == (DOMAIN args.update) \ {"_id"}
    IN /\ index \in 1..Len(Old)
       /\ Len(Now) = Len(Old)
       /\ \A j \in 1..Len(Old) : j # index => Now[j] = Old[j]
       /\ \A k \in named : Get(Now[index], k) = args.update[k]
       /\ \A k \in (DOMAIN Old[index]) \ named : Get(Now[index], k) = Old[index][k]
       /\ DOMAIN Now[index] \subseteq (DOMAIN Old[index]) \cup named

\* an update of the second of several documents changed one field and kept another
C7_Witness ==
  /\ Called("update")
  /\ ret = 1
  /\ Len(Old) >= 2
  /\ findIndex(Old, args._id) = 2
  /\ args.update = ("text" :> "bye")
  /\ Old[2]["text"] = "hi"
  /\ "done" \in DOMAIN Old[2]

----------------------------------------------------------------------------
(* C8 *)

\* C8: after delete(id), read() contains no document whose _id is id, and a
\* delete(id) made right then returns 0 and changes nothing.
C8_DeleteThenGone ==
  Called("delete") =>
    /\ args._id \notin IdSet(Now)
    /\ delete(store, args._id).ret = 0
    /\ delete(store, args._id).store = store

\* a delete removed a document and left others
C8_Witness ==
  /\ Called("delete")
  /\ ret = 1
  /\ Len(Now) > 0

----------------------------------------------------------------------------
(* C9 *)

\* C9: delete(id) returns the number of documents it deleted, 0 or 1: the
\* length of the collection after the call is its length before minus the
\* returned value, and the value is 0 when id is empty or not present.
C9_DeleteReturnsCount ==
  Called("delete") =>
    /\ ret \in {0, 1}
    /\ Len(Now) = Len(Old) - ret
    /\ (args._id = "" \/ args._id \notin IdSet(Old)) => ret = 0

----------------------------------------------------------------------------
(* C10 *)

\* C10: deleteMany(ids) removes exactly the documents whose _id is among ids,
\* keeps the others unchanged and in order, returns the number removed, and
\* returns 0, writing nothing, when no stored _id is among ids.
C10_DeleteManyExact ==
  Called("deleteMany") =>
    LET Kept(item) == \A n \in 1..Len(args._ids) : item["_id"] # args._ids[n]
    IN /\ Now = SelectSeq(Old, Kept)
       /\ ret = Len(Old) - Len(Now)
       /\ (\A i \in 1..Len(Old) : Kept(Old[i])) => (ret = 0 /\ store = before)

\* deleteMany with two identifiers removed one document and kept two different ones
C10_Witness ==
  /\ Called("deleteMany")
  /\ Len(args._ids) = 2
  /\ ret = 1
  /\ Len(Now) = 2
  /\ Now[1] # Now[2]

\* deleteMany with a repeated identifier removed two documents with that _id
C10_WitnessRepeated ==
  /\ Called("deleteMany")
  /\ Len(args._ids) = 2
  /\ args._ids[1] = args._ids[2]
  /\ ret = 2

----------------------------------------------------------------------------
(* C11 *)

\* C11: deleteMany([]) and updateMany([]) each return 0 and leave the stored
\* entry untouched: nothing is written and an absent key stays absent.
C11_EmptyBatchIsNoOp ==
  ((Called("deleteMany") /\ args._ids = << >>)
     \/ (Called("updateMany") /\ args.docs = << >>)) =>
    /\ ret = 0
    /\ store = before

\* updateMany([]) was called on a key that was never written
C11_Witness ==
  /\ Called("updateMany")
  /\ args.docs = << >>
  /\ before = NullItem
  /\ store = NullItem

\* deleteMany([]) was called on a collection with documents
C11_WitnessDelete ==
  /\ Called("deleteMany")
  /\ args._ids = << >>
  /\ Len(Old) > 0

----------------------------------------------------------------------------
(* C12 *)

RECURSIVE SequentialUpdates(_, _)
\* the stored entry and the sum of the results after the caller itself calls
\* update(entry._id, rest of entry) for each entry of docs, first to last
SequentialUpdates(st, docs) ==
  IF docs = << >> THEN [store |-> st, ret |-> 0]
  ELSE LET sofar == SequentialUpdates(st, SubSeq(docs, 1, Len(docs) - 1))
           entry == docs[Len(docs)]
           r == update(sofar.store, Get(entry, "_id"), Rest(entry))
       IN [store |-> r.store, ret |-> sofar.ret + r.ret]

\* C12: updateMany(entries) leaves the stored collection that one update per
\* entry, in input order, leaves (a later entry for the same _id overrides an
\* earlier one, entries with empty or unknown _id are skipped and the rest
\* still applied), and returns the sum of the results of those updates.
C12_UpdateManyIsSequentialUpdate ==
  Called("updateMany") =>
    /\ store = SequentialUpdates(before, args.docs).store
    /\ ret = SequentialUpdates(before, args.docs).ret
    /\ \A n \in 1..Len(args.docs) :
         LET index == findIndex(Old, Get(args.docs[n], "_id"))
         IN (index # -1 /\ \A m \in (n + 1)..Len(args.docs) :
                             Get(args.docs[m], "_id") # Get(args.docs[n], "_id")) =>
              \A k \in DOMAIN Rest(args.docs[n]) :
                Get(Now[index], k) = args.docs[n][k]

\* updateMany skipped a first entry with an empty _id and applied the second
C12_Witness ==
  /\ Called("updateMany")
  /\ Len(args.docs) = 2
  /\ args.docs[1]["_id"] = ""
  /\ ret = 1
  /\ Now # Old

\* two entries for the same document: the text of the second one is stored
C12_WitnessOverride ==
  /\ Called("updateMany")
  /\ Len(args.docs) = 2
  /\ args.docs[1]["_id"] = args.docs[2]["_id"]
  /\ args.docs[1]["text"] # args.docs[2]["text"]
  /\ ret = 2
  /\ Now[findIndex(Old, args.docs[2]["_id"])]["text"] = args.docs[2]["text"]

----------------------------------------------------------------------------
(* C13 *)

\* the positions of the stored documents that the entries of docs target
Targeted(items, docs) ==
  {findIndex(items, Get(docs[n], "_id")) : n \in 1..Len(docs)} \ {-1}

\* C13 as stated: updateMany returns the number of stored documents that the
\* call targeted (the documents actually updated).
C13_ReturnsDocumentsUpdated ==
  Called("updateMany") => ret = Cardinality(Targeted(Old, args.docs))

\* C13 amended: updateMany returns the number of entries whose _id is the _id
\* of a stored document, an entry counting each time it names the document.
C13_ReturnsEntriesMatched ==
  Called("updateMany") =>
    ret = Cardinality({n \in 1..Len(args.docs) :
                         /\ NonEmptyString(Get(args.docs[n], "_id"))
                         /\ Get(args.docs[n], "_id") \in IdSet(Old)})

\* updateMany was given two entries for one stored document and returned 2
C13_Witness ==
  /\ Called("updateMany")
  /\ Len(args.docs) = 2
  /\ Cardinality(Targeted(Old, args.docs)) = 1
  /\ ret = 2

----------------------------------------------------------------------------
(* C14 *)

\* C14: read(filter) returns, in stored order, exactly the documents that have
\* every key of filter with a value equal to the filter's (a document lacking
\* a key does not match); read() and read({}) return the whole collection.
C14_ReadFilters ==
  Called("read") =>
    LET Matches(item) ==
          \A k \in DOMAIN args.query.q :
            k \in DOMAIN item /\ item[k] = args.query.q[k]
    IN /\ ~args.query.given => ret = JSONparse(getItemOrEmpty(store))
       /\ args.query.given => ret = SelectSeq(JSONparse(getItemOrEmpty(store)), Matches)
       /\ (args.query.given /\ args.query.q = << >>) =>
            ret = JSONparse(getItemOrEmpty(store))

\* a two-key filter kept one document and rejected one that matches on text
\* only, another lacking the done key
C14_Witness ==
  /\ Called("read")
  /\ args.query.given
  /\ DOMAIN args.query.q = {"text", "done"}
  /\ Len(ret) = 1
  /\ \E i \in 1..Len(Now) : "done" \notin DOMAIN Now[i] /\ Now[i]["text"] = "bye"
  /\ \E i \in 1..Len(Now) : Get(Now[i], "done") = "hi" /\ Now[i]["text"] = "hi"

----------------------------------------------------------------------------
(* C15 *)

\* C15: read never modifies the store, whatever the filter: the stored entry
\* after read is the one before, an absent key stays absent; and read() on a
\* collection that was never written returns the empty sequence.
C15_ReadHasNoEffect ==
  Called("read") =>
    /\ store = before
    /\ (before = NullItem /\ ~args.query.given) => ret = << >>

\* read() was called on a key that was never written
C15_Witness ==
  /\ Called("read")
  /\ ~args.query.given
  /\ before = NullItem
  /\ store = NullItem

----------------------------------------------------------------------------
(* C16 *)

\* the method `name` was called and has ended, by a return or an exception
Ended(name) == pc \in {"returned", "threw"} /\ op = name

\* the stored value is a string that is not valid JSON
NotJSON(st) == st.type = "string" /\ JSONparseThrows(st)

\* C16 as stated: when the stored value is not valid JSON, every call of
\* create, update and delete, for any arguments, ends in an exception and
\* leaves the stored value unchanged.
C16_EveryCallThrows ==
  ((Ended("create") \/ Ended("update") \/ Ended("delete")) /\ NotJSON(before)) =>
    /\ pc = "threw"
    /\ store = before

\* C16 amended: when the stored value is a non-empty string that is not valid
\* JSON, every call of create, and every call of update and of delete with a
\* non-empty _id, ends in an exception and leaves the stored value unchanged;
\* update and delete with an empty _id return 0 and leave it unchanged too.
C16_CallsThatReadThrow ==
  /\ ((Ended("create") \/ ((Ended("update") \/ Ended("delete")) /\ args._id # ""))
       /\ NotJSON(before) /\ before # EmptyString) =>
       /\ pc = "threw"
       /\ store = before
  /\ ((Ended("update") \/ Ended("delete")) /\ args._id = "" /\ NotJSON(before)) =>
       /\ pc = "returned"
       /\ ret = 0
       /\ store = before

\* create of a batch ended in an exception on a stored string that is not JSON
C16_Witness ==
  /\ Ended("create")
  /\ pc = "threw"
  /\ before = Garbage
  /\ Len(asArray(args.newDocs)) = 2

\* delete with a non-empty _id ended in an exception
C16_WitnessDelete ==
  /\ Ended("delete")
  /\ pc = "threw"
  /\ args._id # ""

----------------------------------------------------------------------------
(* C17 *)

\* both callers' create have returned
BothDone == \A c \in Callers : call[c].at = "done"

\* the documents create returned to caller c are all in the stored collection
Kept(c) == \A i \in 1..Len(call[c].ret) : \E k \in 1..Len(Now) : Now[k] = call[c].ret[i]

\* C17: when each create runs as one indivisible step, no state is reachable
\* in which both creates have returned and the stored collection lacks the
\* documents of one caller: it holds those of both, and nothing else.
C17_NoLostCreateWhenIndivisible ==
  (sharing = "one" /\ BothDone) =>
    /\ \A c \in Callers : Kept(c)
    /\ Len(Now) = Len(call["c1"].ret) + Len(call["c2"].ret)

\* C17, the lost update: with the read and the write of each create as
\* separate steps, both creates have returned their documents and the stored
\* collection has none of the documents of the caller that wrote first.
C17_Witness ==
  /\ sharing = "two"
  /\ BothDone
  /\ \E c \in Callers :
       /\ Len(call[c].ret) > 0
       /\ \A i \in 1..Len(call[c].ret) : call[c].ret[i]["_id"] \notin IdSet(Now)
       /\ \A d \in Callers \ {c} : Len(call[d].ret) > 0 /\ Kept(d)

\* in one execution context both creates returned documents and all are stored
C17_WitnessIndivisible ==
  /\ sharing = "one"
  /\ BothDone
  /\ \A c \in Callers : Len(call[c].ret) > 0 /\ Kept(c)

----------------------------------------------------------------------------
(* C18 *)

\* C18: when update, updateMany, delete or deleteMany returns 0, the stored
\* entry after the call is exactly the entry before it: nothing was written.
C18_ZeroMeansUntouched ==
  ((Called("update") \/ Called("updateMany") \/ Called("delete")
      \/ Called("deleteMany")) /\ ret = 0) =>
    store = before

\* delete of an unknown, non-empty _id returned 0 on a key never written
C18_Witness ==
  /\ Called("delete")
  /\ ret = 0
  /\ args._id # ""
  /\ before = NullItem
  /\ store = NullItem

----------------------------------------------------------------------------
(* C19 *)

\* C19: in any sequence of indivisible calls from an empty collection, a
\* document with identifier i is stored exactly if a create added a document
\* with _id i and no delete(i), and no deleteMany naming i, was called since
\* the latest such create; read, update and updateMany add and remove nothing.
C19_StoredIffCreatedAndNotDeleted ==
  /\ IdSet(Now) = live
  /\ (Called("read") \/ Called("update") \/ Called("updateMany")) =>
       IdSeq(Now) = IdSeq(Old)

\* an identifier was deleted and created again while another one stayed deleted
C19_Witness ==
  /\ Called("create")
  /\ "a" \in IdSet(ret)
  /\ "a" \in IdSet(Old)
  /\ \E u \in issued : u \notin live

====
